---- MODULE Spec2Model ----
(***************************************************************************)
(* Model of the alpha -> beta security policy migration tool.              *)
(*                                                                         *)
(*  - kubeClient.convert (k8s.go) is the conversion orchestrator: it lists *)
(*    the two legacy authentication policy kinds, decodes and converts     *)
(*    every item, enumerates the four legacy RBAC kinds and decides, from  *)
(*    hasError and the --ignore-error flag, whether anything is printed.   *)
(*  - The converter (newConverter / Convert / toYAML) and the decoder      *)
(*    (convertToPolicy) are called by k8s.go; they are modelled from the   *)
(*    design document (sections 3, 4.1 - 4.3) and from the jwt-basic       *)
(*    reference fixture.                                                   *)
(***************************************************************************)
EXTENDS Integers, Sequences, FiniteSets, TLC

\* ------------------------------------------------------------------------
\* Bounds of the model
\* ------------------------------------------------------------------------

\* largest number of items one policy listing returns
MaxItems == 2

\* largest number of items one RBAC listing returns
MaxRbacItems == 1

\* largest number of explicit targets of a policy drawn for the converter
MaxTargets == 2

\* ------------------------------------------------------------------------
\* Constants of k8s.go
\* ------------------------------------------------------------------------

istioNamespace == "istio-system"

gvrPolicies == << "policies", "meshpolicies" >>

gvrRbac == << "rbacconfigs", "clusterrbacconfigs", "servicerolebindings", "serviceroles" >>

\* the Kind an object listed under an RBAC resource reports (item.GetKind())
RbacKind(res) ==
    CASE res = "rbacconfigs" -> "RbacConfig"
      [] res = "clusterrbacconfigs" -> "ClusterRbacConfig"
      [] res = "servicerolebindings" -> "ServiceRoleBinding"
      [] res = "serviceroles" -> "ServiceRole"

\* ------------------------------------------------------------------------
\* Data model of the converter: legacy policy, selector index
\* ------------------------------------------------------------------------

MutualTLS == "MutualTLS"

PrincipalBindings == { "UsePeer", "UseOrigin", "Unspecified" }

JwksUri == "https://raw.githubusercontent.com/istio/istio/release-1.4/security/tools/jwt/samples/jwks.json"

\* one origin method; triggerRules is the sequence of path matchers
JwtSpec(trigger) ==
    [ issuer |-> "testing@secure.istio.io", jwksUri |-> JwksUri,
      audiences |-> {}, jwtHeaders |-> << >>, triggerRules |-> trigger ]

\* one target; ports is the (possibly empty) set of explicit ports
Target(svc, ports) == [ serviceName |-> svc, ports |-> ports ]

\* the service inventory the converter is built from: namespace, name and
\* pod-label selector (a set of <<key, value>> pairs; empty = no selector)
Services ==
    { [ namespace |-> "foo", name |-> "httpbin", selector |-> { << "app", "httpbin" >> } ],
      [ namespace |-> "foo", name |-> "sleep", selector |-> { << "app", "sleep" >> } ],
      [ namespace |-> "foo", name |-> "headless", selector |-> {} ],
      [ namespace |-> "bar", name |-> "ghost", selector |-> { << "app", "ghost" >> } ] }

\* SelectorIndex, built once per run by newConverter
SelectorIndex(services) ==
    [ key \in { << s.namespace, s.name >> : s \in services } |->
        (CHOOSE s \in services : << s.namespace, s.name >> = key).selector ]

\* resolve(namespace, serviceName): exact match on namespace + name
Resolve(index, ns, svc) ==
    IF << ns, svc >> \notin DOMAIN index
      THEN [ ok |-> FALSE, err |-> "TargetNotFound", selector |-> {} ]
      ELSE IF index[<< ns, svc >>] = {}
             THEN [ ok |-> FALSE, err |-> "AmbiguousSelector", selector |-> {} ]
             ELSE [ ok |-> TRUE, err |-> "", selector |-> index[<< ns, svc >>] ]

\* ------------------------------------------------------------------------
\* Policy converter (design document 4.3), Convert(policy)
\* ------------------------------------------------------------------------

\* step 1: namespace of the policy scope; a mesh-scoped policy (empty
\* namespace) lives in the root namespace
EffectiveNamespace(policy, rootNs) ==
    IF policy.namespace = "" THEN rootNs ELSE policy.namespace

\* step 1: the implicit whole-scope target of a policy without targets
ImplicitTarget == Target("", {})

TargetSet(policy) ==
    IF policy.targets = << >> THEN << ImplicitTarget >> ELSE policy.targets

\* step 7: name, namespace, selector and provenance of the resources of one
\* target; selector is a sequence of zero (absent) or one label set
Meta(policy, rootNs, target, selector) ==
    [ name |-> IF target = ImplicitTarget
                 THEN policy.name
                 ELSE policy.name \o "-" \o target.serviceName,
      namespace |-> EffectiveNamespace(policy, rootNs),
      selector |-> selector,
      provenance |-> [ policy |-> policy.namespace \o "/" \o policy.name,
                       service |-> target.serviceName ] ]

\* step 3: unsupported shapes of one target, as errors
ShapeErrors(policy, target) ==
    (IF Len(policy.peerMethods) > 1 THEN << "UnsupportedConstruct" >> ELSE << >>)
    \o (IF target.ports # {} THEN << "UnsupportedConstruct" >> ELSE << >>)

\* step 3: path-scoped JWT is applied scope-wide, with a warning
ShapeWarnings(policy) ==
    IF \E i \in DOMAIN policy.originMethods : policy.originMethods[i].triggerRules # << >>
      THEN << "TriggerRuleApproximated" >>
      ELSE << >>

\* mutant of MtlsMode: the two modes exchanged
MtlsMode_Swapped(policy) ==
    IF policy.peerIsOptional THEN "Strict" ELSE "Permissive"

\* step 4: mTLS mode of the single MutualTLS peer method
MtlsMode(policy) ==
    IF policy.peerIsOptional THEN "Permissive" ELSE "Strict"

\* step 4: no peer method => no PeerAuthentication
PeerResources(policy, meta) ==
    IF Len(policy.peerMethods) = 0
      THEN << >>
      ELSE << [ kind |-> "PeerAuthentication", meta |-> meta, mode |-> MtlsMode(policy) ] >>

\* step 5: one JwtRule per origin method
JwtRules(policy) ==
    [ i \in DOMAIN policy.originMethods |->
        [ issuer |-> policy.originMethods[i].issuer,
          jwksUri |-> policy.originMethods[i].jwksUri,
          audiences |-> policy.originMethods[i].audiences,
          jwtHeaders |-> policy.originMethods[i].jwtHeaders ] ]

\* step 5: empty originMethods => no RequestAuthentication
RequestResources(policy, meta) ==
    IF JwtRules(policy) = << >>
      THEN << >>
      ELSE << [ kind |-> "RequestAuthentication", meta |-> meta, jwtRules |-> JwtRules(policy) ] >>

\* mutant of AuthzResources: the principal binding is not looked at
AuthzResources_AnyBinding(policy, meta) ==
    IF JwtRules(policy) # << >>
      THEN << [ kind |-> "AuthorizationPolicy", meta |-> meta, action |-> "Deny",
                rules |-> << [ requiresRequestPrincipal |-> TRUE ] >> ] >>
      ELSE << >>

\* step 6: origin identity is mandatory only under UseOrigin with a JwtRule
AuthzResources(policy, meta) ==
    IF policy.principalBinding = "UseOrigin" /\ JwtRules(policy) # << >>
      THEN << [ kind |-> "AuthorizationPolicy", meta |-> meta, action |-> "Deny",
                rules |-> << [ requiresRequestPrincipal |-> TRUE ] >> ] >>
      ELSE << >>

\* steps 2 - 7 for one target: its resources, errors and warnings
ConvertTarget(policy, index, rootNs, target) ==
    LET implicit == target = ImplicitTarget
        res == IF implicit
                 THEN [ ok |-> TRUE, err |-> "", selector |-> {} ]
                 ELSE Resolve(index, EffectiveNamespace(policy, rootNs), target.serviceName)
        meta == Meta(policy, rootNs, target, IF implicit THEN << >> ELSE << res.selector >>)
        errs == IF res.ok THEN ShapeErrors(policy, target) ELSE << res.err >>
    IN  [ resources |-> IF errs # << >>
                          THEN << >>
                          ELSE PeerResources(policy, meta) \o RequestResources(policy, meta)
                               \o AuthzResources(policy, meta),
          errors |-> errs,
          warnings |-> IF res.ok THEN ShapeWarnings(policy) ELSE << >> ]

\* mutant of ConvertTargets: the first failing target ends the conversion
RECURSIVE ConvertTargets_ShortCircuit(_, _, _, _)
ConvertTargets_ShortCircuit(policy, index, rootNs, targets) ==
    IF targets = << >>
      THEN [ resources |-> << >>, errors |-> << >>, warnings |-> << >> ]
      ELSE LET head == ConvertTarget(policy, index, rootNs, Head(targets))
               rest == IF head.errors # << >>
                         THEN [ resources |-> << >>, errors |-> << >>, warnings |-> << >> ]
                         ELSE ConvertTargets_ShortCircuit(policy, index, rootNs, Tail(targets))
           IN  [ resources |-> head.resources \o rest.resources,
                 errors |-> head.errors \o rest.errors,
                 warnings |-> head.warnings \o rest.warnings ]

\* the targets are processed in order; errors are collected, never
\* short-circuited
RECURSIVE ConvertTargets(_, _, _, _)
ConvertTargets(policy, index, rootNs, targets) ==
    IF targets = << >>
      THEN [ resources |-> << >>, errors |-> << >>, warnings |-> << >> ]
      ELSE LET head == ConvertTarget(policy, index, rootNs, Head(targets))
               rest == ConvertTargets(policy, index, rootNs, Tail(targets))
           IN  [ resources |-> head.resources \o rest.resources,
                 errors |-> head.errors \o rest.errors,
                 warnings |-> head.warnings \o rest.warnings ]

\* converter.Convert(policy): (output, summary); on failure the partial
\* resources are still returned with the summary
Convert(policy, index, rootNs) ==
    LET r == ConvertTargets(policy, index, rootNs, TargetSet(policy))
    IN  [ output |-> r.resources,
          summary |-> [ errors |-> r.errors, warnings |-> r.warnings ] ]

\* ------------------------------------------------------------------------
\* Serialisation of one generated resource (out.toYAML()), in the shape of
\* the reference fixture; an omitted key is an empty sequence
\* ------------------------------------------------------------------------

AnnotationText(provenance) ==
    IF provenance.service = ""
      THEN "converted from alpha authentication policy " \o provenance.policy
      ELSE "converted from alpha authentication policy " \o provenance.policy
           \o ", service " \o provenance.service

YamlMetadata(meta) ==
    [ annotations |-> [ alphaPolicyConvert |-> AnnotationText(meta.provenance) ],
      name |-> meta.name,
      namespace |-> meta.namespace ]

YamlSelector(meta) ==
    [ i \in DOMAIN meta.selector |-> [ matchLabels |-> meta.selector[i] ] ]

YamlMode(mode) ==
    CASE mode = "Strict" -> "STRICT"
      [] mode = "Permissive" -> "PERMISSIVE"
      [] mode = "Disable" -> "DISABLE"

YamlSpec(res) ==
    CASE res.kind = "PeerAuthentication" ->
           [ mtls |-> [ mode |-> YamlMode(res.mode) ], selector |-> YamlSelector(res.meta) ]
      [] res.kind = "RequestAuthentication" ->
           [ jwtRules |-> res.jwtRules, selector |-> YamlSelector(res.meta) ]
      [] res.kind = "AuthorizationPolicy" ->
           [ action |-> "DENY",
             rules |-> [ i \in DOMAIN res.rules |->
                           IF res.rules[i].requiresRequestPrincipal
                             THEN [ from |-> << [ source |-> [ notRequestPrincipals |-> << "*" >> ] ] >> ]
                             ELSE [ from |-> << >> ] ],
             selector |-> YamlSelector(res.meta) ]

toYAML(res) ==
    [ apiVersion |-> "security.istio.io/v1beta1",
      kind |-> res.kind,
      metadata |-> YamlMetadata(res.meta),
      spec |-> YamlSpec(res) ]

\* the documents of a sequence of resources, in order
YamlAll(resources) == [ i \in DOMAIN resources |-> toYAML(resources[i]) ]

\* ------------------------------------------------------------------------
\* The jwt-basic reference fixture (expected beta output)
\* ------------------------------------------------------------------------

FixtureMetadata ==
    [ annotations |-> [ alphaPolicyConvert |->
                          "converted from alpha authentication policy foo/jwt-basic, service httpbin" ],
      name |-> "jwt-basic-httpbin",
      namespace |-> "foo" ]

FixtureSelector == << [ matchLabels |-> { << "app", "httpbin" >> } ] >>

\* mutant of Fixture: the expected PeerAuthentication is STRICT
Fixture_Strict ==
    << [ apiVersion |-> "security.istio.io/v1beta1", kind |-> "PeerAuthentication",
         metadata |-> FixtureMetadata,
         spec |-> [ mtls |-> [ mode |-> "STRICT" ], selector |-> FixtureSelector ] ],
       [ apiVersion |-> "security.istio.io/v1beta1", kind |-> "RequestAuthentication",
         metadata |-> FixtureMetadata,
         spec |-> [ jwtRules |-> << [ issuer |-> "testing@secure.istio.io", jwksUri |-> JwksUri,
                                      audiences |-> {}, jwtHeaders |-> << >> ] >>,
                    selector |-> FixtureSelector ] ],
       [ apiVersion |-> "security.istio.io/v1beta1", kind |-> "AuthorizationPolicy",
         metadata |-> FixtureMetadata,
         spec |-> [ action |-> "DENY",
                    rules |-> << [ from |-> << [ source |-> [ notRequestPrincipals |-> << "*" >> ] ] >> ] >>,
                    selector |-> FixtureSelector ] ] >>

\* part_000: the three documents of the fixture, in order
Fixture ==
    << [ apiVersion |-> "security.istio.io/v1beta1", kind |-> "PeerAuthentication",
         metadata |-> FixtureMetadata,
         spec |-> [ mtls |-> [ mode |-> "PERMISSIVE" ], selector |-> FixtureSelector ] ],
       [ apiVersion |-> "security.istio.io/v1beta1", kind |-> "RequestAuthentication",
         metadata |-> FixtureMetadata,
         spec |-> [ jwtRules |-> << [ issuer |-> "testing@secure.istio.io", jwksUri |-> JwksUri,
                                      audiences |-> {}, jwtHeaders |-> << >> ] >>,
                    selector |-> FixtureSelector ] ],
       [ apiVersion |-> "security.istio.io/v1beta1", kind |-> "AuthorizationPolicy",
         metadata |-> FixtureMetadata,
         spec |-> [ action |-> "DENY",
                    rules |-> << [ from |-> << [ source |-> [ notRequestPrincipals |-> << "*" >> ] ] >> ] >>,
                    selector |-> FixtureSelector ] ] >>

\* the legacy policy foo/jwt-basic the fixture was generated from
JwtBasic ==
    [ name |-> "jwt-basic", namespace |-> "foo",
      peerIsOptional |-> TRUE, peerMethods |-> << MutualTLS >>,
      originIsOptional |-> FALSE, originMethods |-> << JwtSpec(<< >>) >>,
      principalBinding |-> "UseOrigin",
      targets |-> << Target("httpbin", {}) >> ]

\* ------------------------------------------------------------------------
\* Legacy policy decoder (convertToPolicy) and the objects a listing returns
\* ------------------------------------------------------------------------

\* a listed object: metadata and a body that either has the shape of an
\* authentication policy (one element) or does not (no element)
Item(ns, name, body) == [ namespace |-> ns, name |-> name, body |-> body ]

\* convertToPolicy(item): the policy, or a decode error
convertToPolicy(item) ==
    IF item.body = << >>
      THEN [ ok |-> FALSE, policy |-> JwtBasic ]
      ELSE [ ok |-> TRUE,
             policy |-> [ name |-> item.name, namespace |-> item.namespace,
                          peerIsOptional |-> item.body[1].peerIsOptional,
                          peerMethods |-> item.body[1].peerMethods,
                          originIsOptional |-> item.body[1].originIsOptional,
                          originMethods |-> item.body[1].originMethods,
                          principalBinding |-> item.body[1].principalBinding,
                          targets |-> item.body[1].targets ] ]

Body(peerOptional, peers, origins, binding, targets) ==
    << [ peerIsOptional |-> peerOptional, peerMethods |-> peers,
         originIsOptional |-> FALSE, originMethods |-> origins,
         principalBinding |-> binding, targets |-> targets ] >>

\* the objects the cluster may hold under each policy resource
ClusterItems(resource) ==
    IF resource = "policies"
      THEN { Item("foo", "jwt-basic",
                  Body(TRUE, << MutualTLS >>, << JwtSpec(<< >>) >>, "UseOrigin",
                       << Target("httpbin", {}) >>)),
             Item("foo", "two-targets",
                  Body(FALSE, << MutualTLS >>, << >>, "UsePeer",
                       << Target("sleep", {}), Target("missing", {}) >>)),
             Item("foo", "ns-wide",
                  Body(FALSE, << MutualTLS >>, << >>, "Unspecified", << >>)),
             Item("foo", "broken", << >>) }
      ELSE { Item("", "default",
                  Body(TRUE, << MutualTLS >>, << >>, "UsePeer", << >>)),
             Item("", "two-peers",
                  Body(FALSE, << MutualTLS, MutualTLS >>, << >>, "UsePeer", << >>)),
             Item("", "mesh-broken", << >>) }

AllClusterItems == ClusterItems("policies") \cup ClusterItems("meshpolicies")

\* the lists of at most n distinct objects of a set
RECURSIVE ListsOf(_, _)
ListsOf(items, n) ==
    IF n = 0
      THEN { << >> }
      ELSE { << >> } \cup
           UNION { { << x >> \o rest : rest \in ListsOf(items \ { x }, n - 1) } : x \in items }

\* the names the objects of one RBAC listing carry
RbacNames(resource, n) ==
    [ i \in 1 .. n |-> RbacKind(resource) \o ": foo/rbac-" \o ToString(i) ]

\* ------------------------------------------------------------------------
\* State of one run of kubeClient.convert
\* ------------------------------------------------------------------------

ErrNoNamespace == "could not find istio-system namespace"

ErrListServices == "failed to list services"

ErrDecode == "failed to convert resource to authentication policy"

ErrConversionFailed == "conversion failed, found errors during conversion"

VARIABLES
    ignoreError,       \* the --ignore-error flag
    rootNamespace,     \* kc.rootNamespace
    apiDown,           \* the resources whose listing fails in this cluster
    pc,                \* position in convert()
    gvr,               \* index of the resource kind being listed
    objectList,        \* items of the current policy listing not yet handled
    converter,         \* newConverter(kc.rootNamespace, services)
    hasError,
    betaPolicyOutput,  \* the YAML documents accumulated so far
    rbacResources,
    log,               \* the log.Printf lines, in order
    stdout,            \* what fmt.Printf wrote
    ret,               \* the value convert() returned
    cpolicy,           \* converter check: the policy handed to Convert
    cresult            \* converter check: what Convert returned

vars ==
    << ignoreError, rootNamespace, apiDown, pc, gvr, objectList, converter, hasError,
       betaPolicyOutput, rbacResources, log, stdout, ret, cpolicy, cresult >>

RootNamespaces == { istioNamespace, "mesh-root" }

AllResources ==
    { gvrPolicies[i] : i \in DOMAIN gvrPolicies } \cup { gvrRbac[i] : i \in DOMAIN gvrRbac }

NoResult == [ output |-> << >>, summary |-> [ errors |-> << >>, warnings |-> << >> ] ]

LogLine(msg, subject, errors) == [ msg |-> msg, subject |-> subject, errors |-> errors ]

InitRun ==
    /\ ignoreError \in BOOLEAN
    /\ rootNamespace \in RootNamespaces
    /\ apiDown \in SUBSET AllResources
    /\ pc = "start"
    /\ gvr = 1
    /\ objectList = << >>
    /\ converter = [ rootNamespace |-> "", index |-> SelectorIndex({}) ]
    /\ hasError = FALSE
    /\ betaPolicyOutput = << >>
    /\ rbacResources = << >>
    /\ log = << >>
    /\ stdout = << >>
    /\ ret = "running"

Init ==
    /\ InitRun
    /\ cpolicy = JwtBasic
    /\ cresult = NoResult

\* lines 117 - 127: the namespace check, the service listing, newConverter
Start ==
    /\ pc = "start"
    /\ \E hasIstioNamespace \in BOOLEAN, servicesListed \in BOOLEAN :
         IF ~hasIstioNamespace
           THEN /\ ret' = ErrNoNamespace
                /\ pc' = "done"
                /\ UNCHANGED converter
           ELSE IF ~servicesListed
                  THEN /\ ret' = ErrListServices
                       /\ pc' = "done"
                       /\ UNCHANGED converter
                  ELSE /\ converter' = [ rootNamespace |-> rootNamespace,
                                         index |-> SelectorIndex(Services) ]
                       /\ pc' = "listPolicies"
                       /\ UNCHANGED ret
    /\ UNCHANGED << ignoreError, rootNamespace, apiDown, gvr, objectList, hasError,
                    betaPolicyOutput, rbacResources, log, stdout, cpolicy, cresult >>

\* the position after the policy listing number g is exhausted
AfterPolicies(g) == IF g = Len(gvrPolicies) THEN "listRbac" ELSE "listPolicies"

AfterPoliciesGvr(g) == IF g = Len(gvrPolicies) THEN 1 ELSE g + 1

\* mutant of ListPolicies: a failed listing counts as an error of the run
ListPolicies_FailureIsError ==
    /\ pc = "listPolicies"
    /\ IF gvrPolicies[gvr] \in apiDown
         THEN /\ log' = Append(log, LogLine("skipped", gvrPolicies[gvr], << >>))
              /\ objectList' = << >>
              /\ hasError' = TRUE
              /\ pc' = AfterPolicies(gvr)
              /\ gvr' = AfterPoliciesGvr(gvr)
         ELSE \E items \in ListsOf(ClusterItems(gvrPolicies[gvr]), MaxItems) :
                /\ objectList' = items
                /\ pc' = IF items = << >> THEN AfterPolicies(gvr) ELSE "items"
                /\ gvr' = IF items = << >> THEN AfterPoliciesGvr(gvr) ELSE gvr
                /\ UNCHANGED << log, hasError >>
    /\ UNCHANGED << ignoreError, rootNamespace, apiDown, converter,
                    betaPolicyOutput, rbacResources, stdout, ret, cpolicy, cresult >>

\* lines 129 - 134: list one policy kind; a failed listing is skipped
ListPolicies ==
    /\ pc = "listPolicies"
    /\ IF gvrPolicies[gvr] \in apiDown
         THEN /\ log' = Append(log, LogLine("skipped", gvrPolicies[gvr], << >>))
              /\ objectList' = << >>
              /\ pc' = AfterPolicies(gvr)
              /\ gvr' = AfterPoliciesGvr(gvr)
         ELSE \E items \in ListsOf(ClusterItems(gvrPolicies[gvr]), MaxItems) :
                /\ objectList' = items
                /\ pc' = IF items = << >> THEN AfterPolicies(gvr) ELSE "items"
                /\ gvr' = IF items = << >> THEN AfterPoliciesGvr(gvr) ELSE gvr
                /\ UNCHANGED log
    /\ UNCHANGED << ignoreError, rootNamespace, apiDown, converter, hasError,
                    betaPolicyOutput, rbacResources, stdout, ret, cpolicy, cresult >>

PolicyKey(item) == item.namespace \o "/" \o item.name

\* mutant of ConvertItem: the output of a policy is kept whatever its
\* summary says
ConvertItem_KeepsFailedOutput ==
    /\ pc = "items"
    /\ objectList # << >>
    /\ LET item == Head(objectList)
           decoded == convertToPolicy(item)
           result == Convert(decoded.policy, converter.index, converter.rootNamespace)
       IN  IF ~decoded.ok
             THEN /\ ret' = ErrDecode
                  /\ pc' = "done"
                  /\ UNCHANGED << gvr, objectList, hasError, betaPolicyOutput, log >>
             ELSE /\ IF Len(result.summary.errors) # 0
                       THEN /\ log' = Append(log, LogLine("FAILED", PolicyKey(item),
                                                          result.summary.errors))
                            /\ hasError' = TRUE
                       ELSE /\ log' = Append(log, LogLine("SUCCESS", PolicyKey(item), << >>))
                            /\ UNCHANGED hasError
                  /\ betaPolicyOutput' = betaPolicyOutput \o YamlAll(result.output)
                  /\ objectList' = Tail(objectList)
                  /\ pc' = IF Tail(objectList) = << >> THEN AfterPolicies(gvr) ELSE "items"
                  /\ gvr' = IF Tail(objectList) = << >> THEN AfterPoliciesGvr(gvr) ELSE gvr
                  /\ UNCHANGED ret
    /\ UNCHANGED << ignoreError, rootNamespace, apiDown, converter, rbacResources, stdout,
                    cpolicy, cresult >>

\* mutant of ConvertItem: an item that does not decode is passed over
ConvertItem_SkipsUndecodable ==
    /\ pc = "items"
    /\ objectList # << >>
    /\ LET item == Head(objectList)
           decoded == convertToPolicy(item)
           result == Convert(decoded.policy, converter.index, converter.rootNamespace)
       IN  /\ IF ~decoded.ok
                THEN UNCHANGED << hasError, betaPolicyOutput, log >>
                ELSE IF Len(result.summary.errors) # 0
                       THEN /\ log' = Append(log, LogLine("FAILED", PolicyKey(item),
                                                          result.summary.errors))
                            /\ hasError' = TRUE
                            /\ UNCHANGED betaPolicyOutput
                       ELSE /\ log' = Append(log, LogLine("SUCCESS", PolicyKey(item), << >>))
                            /\ betaPolicyOutput' = betaPolicyOutput \o YamlAll(result.output)
                            /\ UNCHANGED hasError
           /\ objectList' = Tail(objectList)
           /\ pc' = IF Tail(objectList) = << >> THEN AfterPolicies(gvr) ELSE "items"
           /\ gvr' = IF Tail(objectList) = << >> THEN AfterPoliciesGvr(gvr) ELSE gvr
           /\ UNCHANGED ret
    /\ UNCHANGED << ignoreError, rootNamespace, apiDown, converter, rbacResources, stdout,
                    cpolicy, cresult >>

\* lines 135 - 151: decode and convert the next item of the listing
ConvertItem ==
    /\ pc = "items"
    /\ objectList # << >>
    /\ LET item == Head(objectList)
           decoded == convertToPolicy(item)
           result == Convert(decoded.policy, converter.index, converter.rootNamespace)
       IN  IF ~decoded.ok
             THEN /\ ret' = ErrDecode
                  /\ pc' = "done"
                  /\ UNCHANGED << gvr, objectList, hasError, betaPolicyOutput, log >>
             ELSE /\ IF Len(result.summary.errors) # 0
                       THEN /\ log' = Append(log, LogLine("FAILED", PolicyKey(item),
                                                          result.summary.errors))
                            /\ hasError' = TRUE
                            /\ UNCHANGED betaPolicyOutput
                       ELSE /\ log' = Append(log, LogLine("SUCCESS", PolicyKey(item), << >>))
                            /\ betaPolicyOutput' = betaPolicyOutput \o YamlAll(result.output)
                            /\ UNCHANGED hasError
                  /\ objectList' = Tail(objectList)
                  /\ pc' = IF Tail(objectList) = << >> THEN AfterPolicies(gvr) ELSE "items"
                  /\ gvr' = IF Tail(objectList) = << >> THEN AfterPoliciesGvr(gvr) ELSE gvr
                  /\ UNCHANGED ret
    /\ UNCHANGED << ignoreError, rootNamespace, apiDown, converter, rbacResources, stdout,
                    cpolicy, cresult >>

\* lines 155 - 163: list one RBAC kind and record every item of it
ListRbac ==
    /\ pc = "listRbac"
    /\ IF gvrRbac[gvr] \in apiDown
         THEN UNCHANGED rbacResources
         ELSE \E n \in 0 .. MaxRbacItems :
                rbacResources' = rbacResources \o RbacNames(gvrRbac[gvr], n)
    /\ pc' = IF gvr = Len(gvrRbac) THEN "report" ELSE "listRbac"
    /\ gvr' = IF gvr = Len(gvrRbac) THEN gvr ELSE gvr + 1
    /\ UNCHANGED << ignoreError, rootNamespace, apiDown, objectList, converter, hasError,
                    betaPolicyOutput, log, stdout, ret, cpolicy, cresult >>

\* mutant of ReportRbac: the RBAC resources are logged, the run is not failed
ReportRbac_LogOnly ==
    /\ pc = "report"
    /\ IF Len(rbacResources) # 0
         THEN log' = Append(log, LogLine("FAILED RBAC", "", rbacResources))
         ELSE UNCHANGED log
    /\ pc' = "finish"
    /\ UNCHANGED << ignoreError, rootNamespace, apiDown, gvr, objectList, converter, hasError,
                    betaPolicyOutput, rbacResources, stdout, ret, cpolicy, cresult >>

\* lines 164 - 169: any RBAC resource is an error of the run
ReportRbac ==
    /\ pc = "report"
    /\ IF Len(rbacResources) # 0
         THEN /\ log' = Append(log, LogLine("FAILED RBAC", "", rbacResources))
              /\ hasError' = TRUE
         ELSE UNCHANGED << log, hasError >>
    /\ pc' = "finish"
    /\ UNCHANGED << ignoreError, rootNamespace, apiDown, gvr, objectList, converter,
                    betaPolicyOutput, rbacResources, stdout, ret, cpolicy, cresult >>

\* mutant of Finish: the output is printed before the error is returned
Finish_PrintsBeforeFailing ==
    /\ pc = "finish"
    /\ IF hasError /\ ~ignoreError
         THEN /\ ret' = ErrConversionFailed
              /\ stdout' = stdout \o betaPolicyOutput
              /\ UNCHANGED log
         ELSE /\ log' = IF hasError THEN Append(log, LogLine("ignored", "", << >>)) ELSE log
              /\ stdout' = stdout \o betaPolicyOutput
              /\ ret' = "nil"
    /\ pc' = "done"
    /\ UNCHANGED << ignoreError, rootNamespace, apiDown, gvr, objectList, converter, hasError,
                    betaPolicyOutput, rbacResources, cpolicy, cresult >>

\* mutant of Finish: --ignore-error prints the output, the run still fails
Finish_FailsAfterPrinting ==
    /\ pc = "finish"
    /\ IF hasError /\ ~ignoreError
         THEN /\ ret' = ErrConversionFailed
              /\ UNCHANGED << log, stdout >>
         ELSE /\ log' = IF hasError THEN Append(log, LogLine("ignored", "", << >>)) ELSE log
              /\ stdout' = stdout \o betaPolicyOutput
              /\ ret' = IF hasError THEN ErrConversionFailed ELSE "nil"
    /\ pc' = "done"
    /\ UNCHANGED << ignoreError, rootNamespace, apiDown, gvr, objectList, converter, hasError,
                    betaPolicyOutput, rbacResources, cpolicy, cresult >>

\* lines 171 - 180: fail, or print the accumulated output
Finish ==
    /\ pc = "finish"
    /\ IF hasError /\ ~ignoreError
         THEN /\ ret' = ErrConversionFailed
              /\ UNCHANGED << log, stdout >>
         ELSE /\ log' = IF hasError THEN Append(log, LogLine("ignored", "", << >>)) ELSE log
              /\ stdout' = stdout \o betaPolicyOutput
              /\ ret' = "nil"
    /\ pc' = "done"
    /\ UNCHANGED << ignoreError, rootNamespace, apiDown, gvr, objectList, converter, hasError,
                    betaPolicyOutput, rbacResources, cpolicy, cresult >>

Next ==
    \/ Start
    \/ ListPolicies
    \/ ConvertItem
    \/ ListRbac
    \/ ReportRbac
    \/ Finish

Spec == Init /\ [][Next]_vars

\* ------------------------------------------------------------------------
\* The converter on its own: Convert applied to every policy of a bounded set
\* ------------------------------------------------------------------------

TargetPool ==
    { Target("httpbin", {}), Target("sleep", {}), Target("missing", {}),
      Target("headless", {}), Target("httpbin", { 8000 }) }

OriginPool ==
    { << >>, << JwtSpec(<< >>) >>, << JwtSpec(<< "/private" >>) >>,
      << JwtSpec(<< >>), [ JwtSpec(<< >>) EXCEPT !.issuer = "other@secure.istio.io" ] >> }

PeerPool == { << >>, << MutualTLS >>, << MutualTLS, MutualTLS >> }

Policies ==
    { [ name |-> "jwt-basic", namespace |-> ns,
        peerIsOptional |-> po, peerMethods |-> pm,
        originIsOptional |-> FALSE, originMethods |-> om,
        principalBinding |-> pb, targets |-> ts ] :
      ns \in { "foo", "" }, po \in BOOLEAN, pm \in PeerPool, om \in OriginPool,
      pb \in PrincipalBindings, ts \in ListsOf(TargetPool, MaxTargets) }

InitConv ==
    /\ InitRun
    /\ ignoreError = FALSE
    /\ apiDown = {}
    /\ cpolicy \in Policies
    /\ cresult = NoResult

\* output, summary := converter.Convert(policy), with the converter the run
\* builds from the service inventory
ApplyConvert ==
    /\ pc = "start"
    /\ cresult' = Convert(cpolicy, SelectorIndex(Services), rootNamespace)
    /\ pc' = "converted"
    /\ UNCHANGED << ignoreError, rootNamespace, apiDown, gvr, objectList, converter, hasError,
                    betaPolicyOutput, rbacResources, log, stdout, ret, cpolicy >>

NextConv == ApplyConvert

SpecConv == InitConv /\ [][NextConv]_vars


\* ------------------------------------------------------------------------
\* Properties of a run of convert()  (specification Spec)
\* ------------------------------------------------------------------------

Done == pc = "done"

\* the conversion of some policy of the run was logged as FAILED
PolicyFailed == \E i \in DOMAIN log : log[i].msg = "FAILED"

\* the log lines of the policies processed so far, in processing order
RECURSIVE ProcessedKeys(_)
ProcessedKeys(lines) ==
    IF lines = << >>
      THEN << >>
      ELSE (IF Head(lines).msg \in { "SUCCESS", "FAILED" }
              THEN << Head(lines).subject >>
              ELSE << >>) \o ProcessedKeys(Tail(lines))

\* what a converter built from the service inventory returns for every
\* object of the cluster that decodes, under each root namespace
ConversionTable ==
    [ key \in { PolicyKey(it) : it \in AllClusterItems }, rootNs \in RootNamespaces |->
        LET item == CHOOSE it \in AllClusterItems : PolicyKey(it) = key
        IN  Convert(convertToPolicy(item).policy, SelectorIndex(Services), rootNs) ]

\* what the converter of this run returns for the listed policy ns/name
ConversionOf(key) == ConversionTable[key, rootNamespace]

\* the documents of the processed policies with zero errors, in order
RECURSIVE DocsOfSucceeded(_)
DocsOfSucceeded(keys) ==
    IF keys = << >>
      THEN << >>
      ELSE (IF ConversionOf(Head(keys)).summary.errors = << >>
              THEN YamlAll(ConversionOf(Head(keys)).output)
              ELSE << >>) \o DocsOfSucceeded(Tail(keys))

\* the documents every processed policy generated, failed ones included
RECURSIVE DocsOfAll(_)
DocsOfAll(keys) ==
    IF keys = << >>
      THEN << >>
      ELSE YamlAll(ConversionOf(Head(keys)).output) \o DocsOfAll(Tail(keys))

\* the provenance annotation a document of policy ns/name carries
FromPolicy(doc, key) ==
    \E i \in DOMAIN ConversionOf(key).output :
        doc.metadata.annotations = toYAML(ConversionOf(key).output[i]).metadata.annotations

\* C1: without --ignore-error, a run in which the conversion of at least
\* one policy reported an error prints nothing at all, not even the
\* documents of the policies that converted, and returns an error.
C1_NoOutputOnError ==
    (~ignoreError /\ PolicyFailed) =>
        /\ stdout = << >>
        /\ ret # "nil"
        /\ Done => ret \in { ErrConversionFailed, ErrDecode }

\* C1 witness: a strict run ended in failure with nothing printed although
\* a policy had converted and its documents were accumulated.
C1_Witness ==
    /\ Done /\ ~ignoreError /\ PolicyFailed
    /\ betaPolicyOutput # << >>
    /\ stdout = << >>
    /\ ret = ErrConversionFailed

C3_Original_FailsWithOverride ==
    (Done /\ ignoreError /\ PolicyFailed) => ret # "nil"

\* C3 amended: with --ignore-error, a run in which a policy conversion
\* error occurred and every listed object decoded prints the documents of
\* the successfully converted policies and returns nil (success); without
\* the flag the same run prints nothing and returns an error: the flag
\* changes the status as well as the output.
C3_OverrideSucceeds ==
    (Done /\ PolicyFailed /\ ret # ErrDecode) =>
        IF ignoreError
          THEN /\ ret = "nil"
               /\ stdout = betaPolicyOutput
               /\ stdout = DocsOfSucceeded(ProcessedKeys(log))
               /\ log[Len(log)].msg = "ignored"
          ELSE /\ ret = ErrConversionFailed
               /\ stdout = << >>

\* C3 witness: an overridden run with a failed policy returned nil and
\* printed the partial output.
C3_Witness ==
    /\ Done /\ ignoreError /\ PolicyFailed
    /\ ret = "nil"
    /\ stdout # << >>
    /\ stdout = betaPolicyOutput

\* the RBAC enumeration of the run has been carried out
RbacEnumerated ==
    \/ pc \in { "report", "finish" }
    \/ Done /\ ret \in { "nil", ErrConversionFailed }

\* C4: a run that finds at least one legacy RBAC resource (of any of the
\* four kinds) is failed exactly like a run with a conversion error, also
\* when every policy converted: without --ignore-error nothing is printed
\* and the run returns an error, with it the accumulated output is printed.
\* The RBAC resources add no document to the output.
C4_RbacFailsRun ==
    /\ (pc \in { "finish", "done" } /\ rbacResources # << >>) => hasError
    /\ (Done /\ rbacResources # << >>) =>
           IF ignoreError
             THEN stdout = betaPolicyOutput /\ ret = "nil"
             ELSE stdout = << >> /\ ret = ErrConversionFailed
    /\ betaPolicyOutput = DocsOfSucceeded(ProcessedKeys(log))
    /\ \A i \in DOMAIN rbacResources :
           \E k \in DOMAIN gvrRbac : rbacResources[i] \in
               { RbacNames(gvrRbac[k], MaxRbacItems)[n] : n \in 1 .. MaxRbacItems }

\* C4 witness: every policy converted, an RBAC resource was found, and the
\* strict run failed without printing the accumulated documents.
C4_Witness ==
    /\ Done /\ ~ignoreError /\ ~PolicyFailed
    /\ rbacResources # << >>
    /\ betaPolicyOutput # << >>
    /\ stdout = << >>
    /\ ret = ErrConversionFailed

\* the next item of the listing does not decode
UndecodableNext ==
    pc = "items" /\ objectList # << >> /\ ~convertToPolicy(Head(objectList)).ok

\* C5 as stated: a policy object that does not decode is fatal to that
\* policy only; the run goes on with the remaining objects.
C5_Original_DecodeErrorSkipsPolicy ==
    [][UndecodableNext => (pc' # "done" /\ ret' = "running"
                           /\ objectList' = Tail(objectList))]_vars

\* C5 amended: a policy object that does not decode is fatal to the run:
\* convert() returns the decode error at once, the remaining objects are
\* neither decoded nor converted, the RBAC enumeration does not take place
\* and nothing is printed, with or without --ignore-error.
C5_DecodeErrorEndsRun ==
    [][UndecodableNext =>
          /\ pc' = "done"
          /\ ret' = ErrDecode
          /\ stdout' = << >>
          /\ rbacResources' = << >>
          /\ UNCHANGED << objectList, log, betaPolicyOutput, hasError >>]_vars

\* C5 witness: the run ended on a decode error with the override set,
\* objects left in the listing and accumulated documents never printed.
C5_Witness ==
    /\ Done /\ ret = ErrDecode /\ ignoreError
    /\ Len(objectList) > 1
    /\ betaPolicyOutput # << >>
    /\ stdout = << >>
    /\ rbacResources = << >>

\* a listing of the run failed (the failure of an RBAC listing leaves no
\* log line)
ListingFailed ==
    \/ \E i \in DOMAIN log : log[i].msg = "skipped"
    \/ RbacEnumerated /\ \E k \in DOMAIN gvrRbac : gvrRbac[k] \in apiDown

\* C10: a failed listing of a policy kind or of an RBAC kind is skipped: it
\* does not set hasError and the other kinds are still listed, so a run
\* with a failed listing in which every listed policy converted and no RBAC
\* resource was listed returns nil and prints its output without the flag.
C10_ListingFailureSkipped ==
    /\ hasError => (PolicyFailed \/ rbacResources # << >>)
    /\ (Done /\ ListingFailed /\ ~PolicyFailed /\ ret # ErrDecode /\ rbacResources = << >>) =>
           /\ ~hasError
           /\ ret = "nil"
           /\ stdout = betaPolicyOutput
    /\ (Done /\ ret \in { "nil", ErrConversionFailed }) =>
           \A k \in DOMAIN gvrPolicies :
               gvrPolicies[k] \in apiDown =>
                   \E i \in DOMAIN log : log[i] = LogLine("skipped", gvrPolicies[k], << >>)

\* C10 witness: the first policy listing and an RBAC listing failed, the
\* later policy kind was still listed and converted, and the strict run
\* returned nil with its output printed.
C10_Witness ==
    /\ Done /\ ~ignoreError
    /\ gvrPolicies[1] \in apiDown
    /\ gvrRbac[2] \in apiDown
    /\ ret = "nil"
    /\ stdout # << >>
    /\ \E i \in DOMAIN log : log[i].msg = "SUCCESS"

\* ------------------------------------------------------------------------
\* Properties of the converter  (specification SpecConv)
\* ------------------------------------------------------------------------

Converted == pc = "converted"

\* the number of resources of one kind in what Convert returned
CountKind(kind) ==
    Cardinality({ i \in DOMAIN cresult.output : cresult.output[i].kind = kind })

\* the services of the inventory a target names, in the policy's namespace
Named(target) ==
    { svc \in Services : /\ svc.namespace = EffectiveNamespace(cpolicy, rootNamespace)
                         /\ svc.name = target.serviceName }

\* the target names a service the selector index does not hold
Absent(target) == Named(target) = {}

\* the target resolves to a selector and has a supported shape
Convertible(target) ==
    /\ \E svc \in Named(target) : svc.selector # {}
    /\ target.ports = {}
    /\ Len(cpolicy.peerMethods) <= 1

\* C6: converting foo/jwt-basic yields zero errors and exactly three
\* resources, in the order PeerAuthentication (Permissive),
\* RequestAuthentication (one rule with the issuer and jwksUri),
\* AuthorizationPolicy (Deny, one rule requiring a request principal), each
\* named jwt-basic-httpbin in namespace foo with selector app = httpbin and
\* a provenance naming foo/jwt-basic and service httpbin; serialised, they
\* are the documents of the reference fixture.
C6_JwtBasicMatchesFixture ==
    (Converted /\ cpolicy = JwtBasic) =>
        /\ cresult.summary.errors = << >>
        /\ Len(cresult.output) = 3
        /\ cresult.output[1].kind = "PeerAuthentication"
        /\ cresult.output[1].mode = "Permissive"
        /\ cresult.output[2].kind = "RequestAuthentication"
        /\ cresult.output[2].jwtRules =
               << [ issuer |-> "testing@secure.istio.io", jwksUri |-> JwksUri,
                    audiences |-> {}, jwtHeaders |-> << >> ] >>
        /\ cresult.output[3].kind = "AuthorizationPolicy"
        /\ cresult.output[3].action = "Deny"
        /\ cresult.output[3].rules = << [ requiresRequestPrincipal |-> TRUE ] >>
        /\ \A i \in 1 .. 3 :
               cresult.output[i].meta =
                   [ name |-> "jwt-basic-httpbin", namespace |-> "foo",
                     selector |-> << { << "app", "httpbin" >> } >>,
                     provenance |-> [ policy |-> "foo/jwt-basic", service |-> "httpbin" ] ]
        /\ YamlAll(cresult.output) = Fixture

\* C6 witness: foo/jwt-basic has been converted into three resources.
C6_Witness ==
    /\ Converted /\ cpolicy = JwtBasic
    /\ Len(cresult.output) = 3

C8_MtlsMode ==
    Converted =>
        /\ Len(cpolicy.peerMethods) = 1 =>
               /\ \A i \in DOMAIN cresult.output :
                      cresult.output[i].kind = "PeerAuthentication" =>
                          /\ cresult.output[i].mode =
                                 (IF cpolicy.peerIsOptional THEN "Permissive" ELSE "Strict")
                          /\ cresult.output[i].mode # "Disable"
               /\ cresult.summary.errors = << >> =>
                      CountKind("PeerAuthentication") = Len(TargetSet(cpolicy))
        /\ cpolicy.peerMethods = << >> => CountKind("PeerAuthentication") = 0

\* C8 witness: a policy with one MutualTLS method and peerIsOptional false
\* was converted into a Strict PeerAuthentication.
C8_Witness ==
    /\ Converted
    /\ cpolicy.peerMethods = << MutualTLS >>
    /\ ~cpolicy.peerIsOptional
    /\ \E i \in DOMAIN cresult.output :
           cresult.output[i].kind = "PeerAuthentication" /\ cresult.output[i].mode = "Strict"

\* the positions of an error text in the summary
ErrorCount(text) ==
    Cardinality({ i \in DOMAIN cresult.summary.errors : cresult.summary.errors[i] = text })

\* C9: when a target of a multi-target policy names a service the selector
\* index does not hold, that target adds exactly one TargetNotFound error
\* and no resource, and every other target is still processed: a
\* convertible one gets its resources, a failing one its error. The policy
\* succeeds (zero errors) if and only if no target failed.
C9_ErrorsCollectedPerTarget ==
    Converted =>
        LET ts == cpolicy.targets
            out == cresult.output
        IN  /\ (Len(ts) >= 2 /\ \E i \in DOMAIN ts : Absent(ts[i])) =>
                  /\ ErrorCount("TargetNotFound") =
                         Cardinality({ i \in DOMAIN ts : Absent(ts[i]) })
                  /\ \A i \in DOMAIN ts :
                         Absent(ts[i]) =>
                             \A k \in DOMAIN out :
                                 out[k].meta.provenance.service # ts[i].serviceName
                  /\ \A i \in DOMAIN ts :
                         (Convertible(ts[i])
                            /\ (cpolicy.peerMethods # << >> \/ cpolicy.originMethods # << >>)) =>
                             \E k \in DOMAIN out :
                                 out[k].meta.provenance.service = ts[i].serviceName
                  /\ Len(cresult.summary.errors) >=
                         Cardinality({ i \in DOMAIN ts : ~Convertible(ts[i]) })
            /\ (cresult.summary.errors = << >>) <=>
                  \A i \in DOMAIN TargetSet(cpolicy) :
                      IF TargetSet(cpolicy)[i] = ImplicitTarget
                        THEN Len(cpolicy.peerMethods) <= 1
                        ELSE Convertible(TargetSet(cpolicy)[i])

\* C9 witness: the first target is absent from the index, the second was
\* still converted, and the summary holds the one TargetNotFound error.
C9_Witness ==
    /\ Converted
    /\ Len(cpolicy.targets) = 2
    /\ Absent(cpolicy.targets[1])
    /\ Convertible(cpolicy.targets[2])
    /\ cresult.summary.errors = << "TargetNotFound" >>
    /\ \E k \in DOMAIN cresult.output :
           cresult.output[k].meta.provenance.service = cpolicy.targets[2].serviceName

TypeOK ==
    /\ pc \in { "start", "listPolicies", "items", "listRbac", "report", "finish", "done",
                "converted" }
    /\ hasError \in BOOLEAN
    /\ ret \in { "running", "nil", ErrNoNamespace, ErrListServices, ErrDecode, ErrConversionFailed }

====
